---- MODULE Spec2Model ----
(***************************************************************************)
(* A model of uci-rs (src/src/lib.rs): a client that drives one UCI chess  *)
(* engine subprocess over its standard input and output.                   *)
(*                                                                         *)
(* Text is modelled as it is in the program: a string is a sequence of     *)
(* code points, the engine's output pipe is a sequence of bytes.  The      *)
(* engine writes its lines UTF-8 encoded; read_line turns every byte into  *)
(* one char (lib.rs:221).  The engine is the environment: it consumes the  *)
(* client's writes in order and answers "isready" with "readyok".          *)
(***************************************************************************)
EXTENDS Integers, Sequences, FiniteSets, TLC

\* ------------------------------------------------------------------ bounds

\* Public operations a run performs after Engine::new.
MaxOps == 2

\* ------------------------------------------------------- program constants

\* const DEFAULT_TIME: u32 = 100 (lib.rs:21)
DEFAULT_TIME == 100

\* b'\n', the byte that ends a line (lib.rs:222)
NL == 10

\* ' ', the separator of split(' ') and join(" ") (lib.rs:133, lib.rs:88)
SP == 32

\* ----------------------------------------------------------- text helpers

\* char::is_whitespace on the code points below 256 (str::trim, lib.rs:191).
IsWhitespace(c) == c \in {9, 10, 11, 12, 13, 32, 133, 160}

RECURSIVE TrimStart(_)
TrimStart(s) ==
    IF s = <<>> THEN <<>>
    ELSE IF IsWhitespace(Head(s)) THEN TrimStart(Tail(s)) ELSE s

RECURSIVE TrimEnd(_)
TrimEnd(s) ==
    IF s = <<>> THEN <<>>
    ELSE IF IsWhitespace(s[Len(s)]) THEN TrimEnd(SubSeq(s, 1, Len(s) - 1)) ELSE s

\* str::trim
Trim(s) == TrimEnd(TrimStart(s))

\* str::starts_with
StartsWith(s, p) == Len(s) >= Len(p) /\ SubSeq(s, 1, Len(p)) = p

\* str::split(sep).collect::<Vec<&str>>(): the pieces between the separators,
\* empty pieces included; always at least one piece.
RECURSIVE Split(_, _)
Split(s, sep) ==
    IF \A i \in 1..Len(s) : s[i] # sep THEN <<s>>
    ELSE LET k == CHOOSE i \in 1..Len(s) :
                     s[i] = sep /\ \A j \in 1..(i - 1) : s[j] # sep
         IN  <<SubSeq(s, 1, k - 1)>> \o Split(SubSeq(s, k + 1, Len(s)), sep)

\* [String]::join(sep)
RECURSIVE Join(_, _)
Join(v, sep) ==
    IF v = <<>> THEN <<>>
    ELSE IF Len(v) = 1 THEN v[1]
    ELSE v[1] \o sep \o Join(Tail(v), sep)

\* Display of an unsigned integer: its decimal digits.
RECURSIVE ToDecimal(_)
ToDecimal(n) ==
    IF n < 10 THEN <<48 + n>> ELSE ToDecimal(n \div 10) \o <<48 + (n % 10)>>

\* The UTF-8 encoding of a string, as a process writes it to a pipe
\* (code points below 2048 are enough for the strings used here).
RECURSIVE Utf8(_)
Utf8(s) ==
    IF s = <<>> THEN <<>>
    ELSE (IF Head(s) < 128 THEN <<Head(s)>>
          ELSE <<192 + (Head(s) \div 64), 128 + (Head(s) % 64)>>) \o Utf8(Tail(s))

\* `buf[0] as char` (lib.rs:221): the char whose code point is the byte's value.
AsChar(b) == b

\* ------------------------------------------------------------ the strings

\* "uci"  (the handshake command, lib.rs:52)
S_uci ==
    <<117, 99, 105>>
\* "isready"  (the liveness probe, lib.rs:188)
S_isready ==
    <<105, 115, 114, 101, 97, 100, 121>>
\* "readyok"  (the barrier marker, lib.rs:192)
S_readyok ==
    <<114, 101, 97, 100, 121, 111, 107>>
\* "bestmove"  (the result marker, lib.rs:132)
S_bestmove ==
    <<98, 101, 115, 116, 109, 111, 118, 101>>
\* "go movetime "  (lib.rs:128)
S_go_movetime ==
    <<103, 111, 32, 109, 111, 118, 101, 116, 105, 109, 101, 32>>

\* "position"
S_position == <<112,111,115,105,116,105,111,110>>

\* "position startpos moves "  (lib.rs:87)
S_position_startpos ==
    <<112, 111, 115, 105, 116, 105, 111, 110, 32, 115, 116, 97, 114, 116, 112, 111, 115, 32, 109, 111, 118, 101, 115, 32>>
\* "position fen "  (lib.rs:118)
S_position_fen ==
    <<112, 111, 115, 105, 116, 105, 111, 110, 32, 102, 101, 110, 32>>
\* " moves "  (lib.rs:118)
S_moves ==
    <<32, 109, 111, 118, 101, 115, 32>>
\* "setoption name "  (lib.rs:156)
S_setoption_name ==
    <<115, 101, 116, 111, 112, 116, 105, 111, 110, 32, 110, 97, 109, 101, 32>>
\* " value "  (lib.rs:156)
S_value ==
    <<32, 118, 97, 108, 117, 101, 32>>

\* "d"
Cmd_d ==
    <<100>>
\* "isready "  (trailing blank, removed by cmd.trim())
Cmd_isready ==
    <<105, 115, 114, 101, 97, 100, 121, 32>>
\* "go depth 1"  (the documented example's shape, lib.rs:176)
Cmd_go ==
    <<103, 111, 32, 100, 101, 112, 116, 104, 32, 49>>
\* "quit"
Cmd_quit ==
    <<113, 117, 105, 116>>
\* "Hash"
Opt_Hash ==
    <<72, 97, 115, 104>>
\* "Skill Level"  (lib.rs:153)
Opt_Skill ==
    <<83, 107, 105, 108, 108, 32, 76, 101, 118, 101, 108>>
\* "15"
Val_15 ==
    <<49, 53>>
\* "1 5"  (a value holding a blank)
Val_sp ==
    <<49, 32, 53>>
\* "e2e4"
Mv_e2e4 ==
    <<101, 50, 101, 52>>
\* "e7e5"
Mv_e7e5 ==
    <<101, 55, 101, 53>>
\* "8/8 w - 0 1"  (a (shortened) FEN: fields separated by blanks)
Fen_1 ==
    <<56, 47, 56, 32, 119, 32, 45, 32, 48, 32, 49>>

\* "Stockfish 16"
L_greeting ==
    <<83, 116, 111, 99, 107, 102, 105, 115, 104, 32, 49, 54>>
\* "info string x"
L_note ==
    <<105, 110, 102, 111, 32, 115, 116, 114, 105, 110, 103, 32, 120>>
\* ""
L_empty ==
    <<>>
\* " "
L_blank ==
    <<32>>
\* "Stéphane"  (U+00E9 is not ASCII)
L_author ==
    <<83, 116, 233, 112, 104, 97, 110, 101>>
\* "info depth 1"
L_info ==
    <<105, 110, 102, 111, 32, 100, 101, 112, 116, 104, 32, 49>>
\* "readyok"
L_readyok ==
    <<114, 101, 97, 100, 121, 111, 107>>
\* "readyok\r"  (an engine ending its lines with CR LF)
L_readyok_cr ==
    <<114, 101, 97, 100, 121, 111, 107, 13>>
\* "bestmove e2e4 ponder e7e5"
L_best ==
    <<98, 101, 115, 116, 109, 111, 118, 101, 32, 101, 50, 101, 52, 32, 112, 111, 110, 100, 101, 114, 32, 101, 55, 101, 53>>
\* "bestmove  e2e4"  (two blanks between the tokens)
L_best_2sp ==
    <<98, 101, 115, 116, 109, 111, 118, 101, 32, 32, 101, 50, 101, 52>>
\* " bestmove e2e4"  (a leading blank)
L_best_lead ==
    <<32, 98, 101, 115, 116, 109, 111, 118, 101, 32, 101, 50, 101, 52>>
\* "bestmove"  (the token alone)
L_best_only ==
    <<98, 101, 115, 116, 109, 111, 118, 101>>
\* "bestmoves e2e4"  (first token is not bestmove)
L_bestmoves ==
    <<98, 101, 115, 116, 109, 111, 118, 101, 115, 32, 101, 50, 101, 52>>

\* ------------------------------------------------ inputs and engine output

\* Arguments of Engine::command.
Cmds == {Cmd_d, Cmd_isready, Cmd_go, Cmd_quit}

\* Arguments of Engine::set_option.
Options == {<<Opt_Hash, Val_15>>, <<Opt_Skill, Val_sp>>}

\* Arguments of the position setters.
MoveLists == {<<>>, <<Mv_e2e4>>, <<Mv_e2e4, Mv_e7e5>>}
Fens == {Fen_1}

\* Arguments of Engine::movetime.
MoveTimes == {5, 200}

\* What an engine prints when it starts: nothing, or a banner.
Greetings == {<<>>, <<L_greeting>>}

\* What an engine prints for a command other than isready, go and quit:
\* nothing, blank lines, or lines of text.
Replies == {<<>>, <<L_empty, L_blank>>, <<L_note, L_author>>}

\* How an engine spells its answer to isready.
ReadyLines == {L_readyok, L_readyok_cr}

\* What an engine prints at once when a search starts.
SearchInfos == {<<>>, <<L_info>>}

\* The line that ends a search.
BestLines == {L_best, L_best_2sp, L_best_lead, L_best_only, L_bestmoves}

\* ------------------------------------------------------------------ state

VARIABLES
    pc,         \* where the client is: "new_read" (lib.rs:51), "probe" (lib.rs:188),
                \* "drain" (lib.rs:190), "best" (lib.rs:130), "idle" (between public
                \* calls), "failed" (a call returned Err(Io)), "spin" (read_line's loop
                \* at end of stream), "panic" (index out of bounds, lib.rs:133)
    op,         \* the public operation running, or the last one: kind, id, args
    acc,        \* read_left_output's accumulator s (lib.rs:186)
    result,     \* what the last public operation returned
    movetime,   \* Engine.movetime (lib.rs:18)
    log,        \* the I/O calls of the operation running (or of the last one)
    nops,       \* public operations started after new
    stdin,      \* the engine's input pipe: the texts written and not yet consumed
    stdout,     \* the engine's output pipe: the bytes written and not yet read
    outTags,    \* for each complete line in stdout: its text, the operation
                \* whose command made the engine print it, and the command
    alive,      \* the engine process runs (its ends of the pipes are open)
    searching,  \* the operation whose "go" the engine is searching for, or 0
    probes,     \* "isready" probes written by read_left_output
    markers,    \* "readyok" lines consumed by read_left_output
    readyoks    \* "readyok" lines consumed by any read_line

vars == <<pc, op, acc, result, movetime, log, nops, stdin, stdout, outTags,
          alive, searching, probes, markers, readyoks>>

clientVars == <<pc, op, acc, result, movetime, log, nops, probes, markers,
                readyoks>>

NoResult == [tag |-> "none", val |-> <<>>]
Ok(v) == [tag |-> "Ok", val |-> v]
\* EngineError::Io (lib.rs:234, lib.rs:250-254)
Io == [tag |-> "Io", val |-> <<>>]
\* EngineError::UnknownOption (lib.rs:237)
UnknownOption(name) == [tag |-> "UnknownOption", val |-> name]

\* One I/O call: k is "write", "writeerr", "read" or "readerr"; s the text
\* written or the line read; text and src the engine's line and its origin.
Ev(k, s, text, src) ==
    [k |-> k, s |-> s, text |-> text, src |-> src, cmd |-> ""]

\* The bytes an engine writes for a sequence of lines.
RECURSIVE Bytes(_)
Bytes(lines) ==
    IF lines = <<>> THEN <<>>
    ELSE Utf8(Head(lines)) \o <<NL>> \o Bytes(Tail(lines))

Tags(lines, id, cmd) ==
    [i \in 1..Len(lines) |-> [text |-> lines[i], op |-> id, cmd |-> cmd]]

Init ==
    /\ pc = "new_read"
    /\ op = [kind |-> "new", id |-> 0, args |-> <<>>]
    /\ acc = <<>>
    /\ result = NoResult
    /\ movetime = DEFAULT_TIME
    /\ log = <<>>
    /\ nops = 0
    /\ stdin = <<>>
    /\ \E g \in Greetings : stdout = Bytes(g) /\ outTags = Tags(g, 0, "")
    /\ alive = TRUE
    /\ searching = 0
    /\ probes = 0
    /\ markers = 0
    /\ readyoks = 0

\* ----------------------------------------------------------------- engine

\* How an engine reads one line of its input.
EngineKind(text) ==
    IF Trim(text) = S_isready THEN "isready"
    ELSE IF StartsWith(text, <<103, 111>>) THEN "go"
    ELSE IF Trim(text) = Cmd_quit THEN "quit"
    ELSE "other"

\* The command a line answers, as far as the properties tell commands apart.
CommandWord(text) ==
    IF StartsWith(text, S_position) THEN "position" ELSE EngineKind(text)

Emit(lines, id, cmd) ==
    /\ stdout' = stdout \o Bytes(lines)
    /\ outTags' = outTags \o Tags(lines, id, cmd)

EngineTakes(kind) ==
    /\ alive
    /\ stdin # <<>>
    /\ EngineKind(Head(stdin).text) = kind
    /\ stdin' = Tail(stdin)

\* UCI: isready is always answered by readyok, also during a search.
EngineReady ==
    /\ EngineTakes("isready")
    /\ \E r \in ReadyLines : Emit(<<r>>, Head(stdin).op, "isready")
    /\ UNCHANGED <<clientVars, alive, searching>>

\* go starts a search: its result line comes later, on its own.
EngineGo ==
    /\ EngineTakes("go")
    /\ IF searching = 0
       THEN /\ searching' = Head(stdin).op
            /\ \E i \in SearchInfos : Emit(i, Head(stdin).op, "go")
       ELSE UNCHANGED <<searching, stdout, outTags>>
    /\ UNCHANGED <<clientVars, alive>>

EngineBest ==
    /\ alive
    /\ searching # 0
    /\ \E b \in BestLines : Emit(<<b>>, searching, "go")
    /\ searching' = 0
    /\ UNCHANGED <<clientVars, alive, stdin>>

EngineReply ==
    /\ EngineTakes("other")
    /\ \E r \in Replies : Emit(r, Head(stdin).op, CommandWord(Head(stdin).text))
    /\ UNCHANGED <<clientVars, alive, searching>>

EngineQuit ==
    /\ EngineTakes("quit")
    /\ alive' = FALSE
    /\ searching' = 0
    /\ UNCHANGED <<clientVars, stdout, outTags>>

\* The engine process ends on its own, possibly in the middle of a line.
EngineExit ==
    /\ alive
    /\ alive' = FALSE
    /\ searching' = 0
    /\ \E tail \in {<<>>, <<105>>} : stdout' = stdout \o tail
    /\ UNCHANGED <<clientVars, stdin, outTags>>

\* ----------------------------------------------------------------- client

\* Where a transport error leaves the client: the operation has returned
\* Err(Io) (from new: no Engine), and the caller drops the instance.
FailPc == "failed"

\* write_fmt with the error of lib.rs:205 dropped: the operation goes on.
write_fmt_unchecked(text, id, lg, next, okres, failpc) ==
    /\ stdin' = IF alive THEN Append(stdin, [text |-> text, op |-> id]) ELSE stdin
    /\ log' = Append(lg, Ev(IF alive THEN "write" ELSE "writeerr", text, <<>>, id))
    /\ pc' = next
    /\ result' = okres

\* Engine::write_fmt (lib.rs:198-207): the text goes to the engine's input, or
\* the write fails (the pipe is broken) and the operation returns Io at once.
\* lg is the log so far, next and okres where and with what a success continues.
write_fmt(text, id, lg, next, okres, failpc) ==
    IF alive
    THEN /\ stdin' = Append(stdin, [text |-> text, op |-> id])
         /\ log' = Append(lg, Ev("write", text, <<>>, id))
         /\ pc' = next
         /\ result' = okres
    ELSE /\ stdin' = stdin
         /\ log' = Append(lg, Ev("writeerr", text, <<>>, id))
         /\ pc' = failpc
         /\ result' = Io

\* Engine::read_line (lib.rs:209-227): bytes are read one at a time, each
\* pushed as a char, until the byte read is a newline.
HasLine == \E i \in 1..Len(stdout) : stdout[i] = NL

LineEnd ==
    CHOOSE i \in 1..Len(stdout) :
        stdout[i] = NL /\ \A j \in 1..(i - 1) : stdout[j] # NL

read_line == [i \in 1..LineEnd |-> AsChar(stdout[i])]

TakeLine ==
    /\ stdout' = SubSeq(stdout, LineEnd + 1, Len(stdout))
    /\ outTags' = Tail(outTags)

ReadEv ==
    [Ev("read", read_line, Head(outTags).text, Head(outTags).op)
        EXCEPT !.cmd = Head(outTags).cmd]

IsReadyok(line) == Trim(line) = S_readyok

CountReadyok == readyoks' = readyoks + (IF IsReadyok(read_line) THEN 1 ELSE 0)

Waiting == pc \in {"new_read", "drain", "best"}

\* A read fails (lib.rs:220, the `?`): the operation returns Io at once.
read_error ==
    /\ Waiting
    /\ log' = Append(log, Ev("readerr", <<>>, <<>>, op.id))
    /\ pc' = FailPc
    /\ result' = Io
    /\ UNCHANGED <<op, acc, movetime, nops, stdin, stdout, outTags, alive,
                   searching, probes, markers, readyoks>>

\* The stream is at its end: read returns Ok(0), which lib.rs:214-220 drops;
\* the buffer keeps its last byte, which is no newline, and the loop of
\* lib.rs:213-225 pushes it for ever.
read_eof ==
    /\ Waiting
    /\ ~alive
    /\ ~HasLine
    /\ pc' = "spin"
    /\ stdout' = <<>>
    /\ UNCHANGED <<op, acc, result, movetime, log, nops, stdin, outTags, alive,
                   searching, probes, markers, readyoks>>

\* command's text without the trim of lib.rs:180.
command_text_verbatim(cmd) == cmd \o <<NL>>

\* The texts the operations write.
command_text(cmd) == Trim(cmd) \o <<NL>>

\* The position text with no blank after "moves" when there are no moves.
make_moves_text_trimmed(moves) ==
    IF moves = <<>> THEN TrimEnd(S_position_startpos) \o <<NL>>
    ELSE S_position_startpos \o Join(moves, <<SP>>) \o <<NL>>

make_moves_text(moves) == S_position_startpos \o Join(moves, <<SP>>) \o <<NL>>

make_moves_from_position_text(fen, moves) ==
    S_position_fen \o fen \o S_moves \o Join(moves, <<SP>>) \o <<NL>>

set_position_text(fen) == make_moves_from_position_text(fen, <<>>)

\* set_option's command with the value wrapped in double quotes.
set_option_text_quoted(name, value) ==
    S_setoption_name \o name \o S_value \o <<34>> \o value \o <<34, NL>>

set_option_text(name, value) ==
    S_setoption_name \o name \o S_value \o value \o <<NL>>

\* bestmove's command with the default think-time, whatever movetime was set.
bestmove_text_default(mt) == S_go_movetime \o ToDecimal(DEFAULT_TIME) \o <<NL>>

bestmove_text(mt) == S_go_movetime \o ToDecimal(mt) \o <<NL>>

probe_text == S_isready \o <<NL>>

\* Engine::new without the read of lib.rs:51 (the greeting is not awaited).
new_without_greeting ==
    /\ pc = "new_read"
    /\ write_fmt(command_text(S_uci), 0, <<>>, "probe", NoResult, FailPc)
    /\ UNCHANGED <<op, acc, movetime, nops, stdout, outTags, alive, searching,
                   probes, markers, readyoks>>

\* Engine::new (lib.rs:51-52, then lib.rs:180): the greeting is read, then the
\* handshake command is written.
new ==
    /\ pc = "new_read"
    /\ HasLine
    /\ TakeLine
    /\ CountReadyok
    /\ write_fmt(command_text(S_uci), 0, <<ReadEv>>, "probe", NoResult, FailPc)
    /\ UNCHANGED <<op, acc, movetime, nops, alive, searching, probes,
                   markers>>

\* A public operation starts: the engine is idle in the caller's hands.
Begin(kind, args) ==
    /\ pc = "idle"
    /\ nops < MaxOps
    /\ nops' = nops + 1
    /\ op' = [kind |-> kind, id |-> nops + 1, args |-> args]
    /\ UNCHANGED <<acc, stdout, outTags, alive, searching, probes, markers,
                   readyoks>>

\* Engine::movetime (lib.rs:63-66)
movetime_builder(new_movetime) ==
    /\ Begin("movetime", <<new_movetime>>)
    /\ movetime' = new_movetime
    /\ log' = <<>>
    /\ result' = Ok(<<>>)
    /\ UNCHANGED <<pc, stdin>>

\* make_moves with a barrier after its write, as in set_option.
make_moves_synchronized(moves) ==
    /\ Begin("make_moves", <<moves>>)
    /\ write_fmt(make_moves_text(moves), nops + 1, <<>>, "probe", NoResult, FailPc)
    /\ UNCHANGED movetime

\* Engine::make_moves (lib.rs:85-90)
make_moves(moves) ==
    /\ Begin("make_moves", <<moves>>)
    /\ write_fmt(make_moves_text(moves), nops + 1, <<>>, "idle", Ok(<<>>), FailPc)
    /\ UNCHANGED movetime

\* Engine::set_position (lib.rs:105-108)
set_position(fen) ==
    /\ Begin("set_position", <<fen>>)
    /\ write_fmt(set_position_text(fen), nops + 1, <<>>, "idle", Ok(<<>>), FailPc)
    /\ UNCHANGED movetime

\* Engine::make_moves_from_position (lib.rs:116-122)
make_moves_from_position(fen, moves) ==
    /\ Begin("make_moves_from_position", <<fen, moves>>)
    /\ write_fmt(make_moves_from_position_text(fen, moves), nops + 1, <<>>,
                 "idle", Ok(<<>>), FailPc)
    /\ UNCHANGED movetime

\* Engine::bestmove, its write (lib.rs:128)
bestmove ==
    /\ Begin("bestmove", <<>>)
    /\ write_fmt(bestmove_text(movetime), nops + 1, <<>>, "best", NoResult, FailPc)
    /\ UNCHANGED movetime

\* Engine::set_option, its write (lib.rs:156)
set_option(name, value) ==
    /\ Begin("set_option", <<name, value>>)
    /\ write_fmt(set_option_text(name, value), nops + 1, <<>>, "probe", NoResult,
                 FailPc)
    /\ UNCHANGED movetime

\* Engine::command, its write (lib.rs:180); the sleep of lib.rs:181 is time
\* in which the engine takes steps before read_left_output starts.
command(cmd) ==
    /\ Begin("command", <<cmd>>)
    /\ write_fmt(command_text(cmd), nops + 1, <<>>, "probe", NoResult, FailPc)
    /\ UNCHANGED movetime

\* read_left_output writing its probe twice.
read_left_output_two_probes ==
    /\ pc = "probe"
    /\ acc' = <<>>
    /\ IF alive
       THEN /\ stdin' = stdin \o <<[text |-> probe_text, op |-> op.id],
                                   [text |-> probe_text, op |-> op.id]>>
            /\ log' = log \o <<Ev("write", probe_text, <<>>, op.id),
                               Ev("write", probe_text, <<>>, op.id)>>
            /\ pc' = "drain"
            /\ result' = NoResult
            /\ probes' = probes + 2
       ELSE /\ stdin' = stdin
            /\ log' = Append(log, Ev("writeerr", probe_text, <<>>, op.id))
            /\ pc' = FailPc
            /\ result' = Io
            /\ probes' = probes
    /\ UNCHANGED <<op, movetime, nops, stdout, outTags, alive, searching,
                   markers, readyoks>>

\* Engine::read_left_output, its start (lib.rs:186-188): the accumulator is
\* empty and the probe is written.
read_left_output ==
    /\ pc = "probe"
    /\ acc' = <<>>
    /\ write_fmt(probe_text, op.id, log, "drain", NoResult, FailPc)
    /\ probes' = probes + (IF alive THEN 1 ELSE 0)
    /\ UNCHANGED <<op, movetime, nops, stdout, outTags, alive, searching,
                   markers, readyoks>>

\* A marker test that also ends the drain at an empty line.
IsMarker_or_empty(t) == t = S_readyok \/ t = <<>>

\* The match of lib.rs:191-192.
IsMarker(t) == t = S_readyok

\* Ok(s.join("\n")) (lib.rs:192)
read_left_output_value(s) == Join(s, <<NL>>)

\* The classification without the trim of lib.rs:159.
set_option_result_untrimmed(name, error_msg) ==
    IF error_msg = <<>> THEN Ok(<<>>) ELSE UnknownOption(name)

\* The classification of lib.rs:159-163.
set_option_result(name, error_msg) ==
    IF Trim(error_msg) = <<>> THEN Ok(<<>>) ELSE UnknownOption(name)

\* What the operation returns once read_left_output has returned Ok(out):
\* new the Engine (lib.rs:54), command the output (lib.rs:182), set_option
\* its classification.
Finish(o, out) ==
    CASE o.kind = "new" -> Ok(<<>>)
      [] o.kind = "command" -> Ok(out)
      [] o.kind = "set_option" -> set_option_result(o.args[1], out)

\* One turn of read_left_output's loop (lib.rs:189-195).
read_left_output_loop ==
    /\ pc = "drain"
    /\ HasLine
    /\ TakeLine
    /\ CountReadyok
    /\ log' = Append(log, ReadEv)
    /\ IF IsMarker(Trim(read_line))
       THEN /\ pc' = "idle"
            /\ result' = Finish(op, read_left_output_value(acc))
            /\ acc' = acc
            /\ markers' = markers + 1
       ELSE /\ pc' = "drain"
            /\ result' = result
            /\ acc' = Append(acc, Trim(read_line))
            /\ markers' = markers
    /\ UNCHANGED <<op, movetime, nops, stdin, alive, searching, probes>>

\* The test of lib.rs:132.
IsResultLine(s) == StartsWith(s, S_bestmove)

\* s.split(' ').collect::<Vec<&str>>() (lib.rs:133)
ResultPieces(s) == Split(s, SP)

\* One turn of bestmove's loop (lib.rs:129-135); indexing the pieces at 1
\* panics when there is one piece only.
bestmove_loop ==
    /\ pc = "best"
    /\ HasLine
    /\ TakeLine
    /\ CountReadyok
    /\ log' = Append(log, ReadEv)
    /\ IF IsResultLine(read_line)
       THEN IF Len(ResultPieces(read_line)) < 2
            THEN pc' = "panic" /\ result' = result
            ELSE pc' = "idle" /\ result' = Ok(Trim(ResultPieces(read_line)[2]))
       ELSE pc' = "best" /\ result' = result
    /\ UNCHANGED <<op, acc, movetime, nops, stdin, alive, searching,
                   probes, markers>>

\* ---------------------------------------------------------- specification

Next ==
    \/ new
    \/ \E v \in MoveTimes : movetime_builder(v)
    \/ \E m \in MoveLists : make_moves(m)
    \/ \E f \in Fens : set_position(f)
    \/ \E f \in Fens, m \in MoveLists : make_moves_from_position(f, m)
    \/ bestmove
    \/ \E o \in Options : set_option(o[1], o[2])
    \/ \E c \in Cmds : command(c)
    \/ read_left_output
    \/ read_left_output_loop
    \/ bestmove_loop
    \/ read_error
    \/ read_eof
    \/ EngineReady
    \/ EngineGo
    \/ EngineBest
    \/ EngineReply
    \/ EngineQuit
    \/ EngineExit

Spec == Init /\ [][Next]_vars

\* The same program under the scheduling the barrier has: the handshake and
\* a synchronized send, once begun, run on (the write of the probe follows
\* the command, the blocking read of the drain returns when a line is
\* there), and an engine that is alive handles the commands it was sent, in
\* order.  Transport errors, the end of the engine and the end of a search
\* stay free to happen or not.
ClientStep ==
    \/ new
    \/ read_left_output
    \/ read_left_output_loop

EngineStep ==
    \/ EngineReady
    \/ EngineGo
    \/ EngineReply
    \/ EngineQuit

FairSpec == Spec /\ WF_vars(ClientStep) /\ WF_vars(EngineStep)

\* The program two calls into a run: Engine::new has returned an Engine and
\* command("isready ") has returned Ok(""), having read the "readyok" that
\* answers the text it sent; the engine has not yet taken the probe the call
\* wrote after it.  Spec reaches this state (with the call numbered 1); the
\* public operations are counted from here, so that MaxOps more of them
\* follow.
InitAfterIsready ==
    /\ pc = "idle"
    /\ op = [kind |-> "command", id |-> 0, args |-> <<Cmd_isready>>]
    /\ acc = <<>>
    /\ result = Ok(<<>>)
    /\ movetime = DEFAULT_TIME
    /\ log = <<Ev("write", command_text(Cmd_isready), <<>>, 0),
               Ev("write", probe_text, <<>>, 0),
               [Ev("read", L_readyok \o <<NL>>, L_readyok, 0)
                   EXCEPT !.cmd = "isready"]>>
    /\ nops = 0
    /\ stdin = <<[text |-> probe_text, op |-> 0]>>
    /\ stdout = <<>>
    /\ outTags = <<>>
    /\ alive = TRUE
    /\ searching = 0
    /\ probes = 2
    /\ markers = 2
    /\ readyoks = 2

NextAfterNew ==
    \/ \E v \in MoveTimes : movetime_builder(v)
    \/ \E m \in MoveLists : make_moves(m)
    \/ \E f \in Fens : set_position(f)
    \/ \E f \in Fens, m \in MoveLists : make_moves_from_position(f, m)
    \/ bestmove
    \/ \E o \in Options : set_option(o[1], o[2])
    \/ \E c \in Cmds : command(c)
    \/ read_left_output
    \/ read_left_output_loop
    \/ bestmove_loop
    \/ read_error
    \/ read_eof
    \/ EngineReady
    \/ EngineGo
    \/ EngineBest
    \/ EngineReply
    \/ EngineQuit
    \/ EngineExit

SpecAfterIsready == InitAfterIsready /\ [][NextAfterNew]_vars

\* ------------------------------------------------------------- properties

\* The reads and the writes of an operation, in order.
Reads(lg) == SelectSeq(lg, LAMBDA e : e.k = "read")
Writes(lg) == SelectSeq(lg, LAMBDA e : e.k = "write")

\* All of a sequence but its last element.
Front(s) == SubSeq(s, 1, Len(s) - 1)

\* A call has returned to its caller without a transport error.
Returned(kind) == pc = "idle" /\ op.kind = kind /\ result.tag # "none"

\* The lines a call collected before the marker, as the engine printed them
\* (text) and as the client read them (s), each trimmed.
CollectedTexts == [i \in 1..(Len(Reads(log)) - 1) |-> Trim(Reads(log)[i].text)]
CollectedLines == [i \in 1..(Len(Reads(log)) - 1) |-> Trim(Reads(log)[i].s)]

\* C1: when the engine's next output is N lines, none of them "readyok" after
\* trimming, followed by a "readyok" line, command returns exactly those N
\* lines, each trimmed, in the order received (as one string, joined by
\* newlines), the marker excluded; nothing for N = 0.
C1_DrainReturnsTheLines ==
    (/\ Returned("command")
     /\ \A i \in 1..Len(CollectedTexts) : CollectedTexts[i] # S_readyok
     /\ Trim(Reads(log)[Len(Reads(log))].text) = S_readyok)
    => result = Ok(Join(CollectedTexts, <<NL>>))

\* The I/O of Engine::new so far is a prefix of: one read, the write of
\* "uci", the write of "isready", reads up to the first "readyok".
NewOrder(lg) ==
    /\ Len(lg) >= 1 => lg[1].k \in {"read", "readerr"}
    /\ Len(lg) >= 2 => lg[2].k \in {"write", "writeerr"} /\ lg[2].s = S_uci \o <<NL>>
    /\ Len(lg) >= 3 => lg[3].k \in {"write", "writeerr"} /\ lg[3].s = S_isready \o <<NL>>
    /\ \A i \in 4..Len(lg) : lg[i].k \in {"read", "readerr"}
    /\ \A i \in 4..(Len(lg) - 1) : ~IsReadyok(lg[i].s)

\* C2: Engine::new reads one line, writes "uci", writes "isready", then reads
\* up to the "readyok" marker, in this order; it returns an Engine only once
\* the marker is consumed, and until then nothing but these two texts has been
\* written to the engine: no other operation has started.
C2_NewBarrierFirst ==
    /\ op.kind = "new" => NewOrder(log)
    /\ (op.kind = "new" /\ pc = "idle") =>
           /\ Len(log) >= 4
           /\ \A i \in 1..Len(log) : log[i].k \in {"read", "write"}
           /\ IsReadyok(log[Len(log)].s)
    /\ (op.kind = "new" /\ pc # "idle") =>
           /\ nops = 0
           /\ \A i \in 1..Len(stdin) :
                  stdin[i].op = 0 /\ stdin[i].text \in {S_uci \o <<NL>>, S_isready \o <<NL>>}
    /\ nops > 0 => markers >= 1

\* new has returned an Engine after collecting lines before the marker.
C2_Witness ==
    /\ Returned("new")
    /\ result.tag = "Ok"
    /\ Len(log) >= 5

\* C3: a call of command or set_option that returns has collected only lines
\* the engine printed for this call's own command, and has left unread no
\* line the engine prints for this call's command (of what the engine prints
\* for the call, only an answer to isready may be unread).
C3_OwnOutputExactly ==
    (pc = "idle" /\ op.kind \in {"command", "set_option"} /\ result.tag # "none")
    => /\ \A i \in 1..(Len(Reads(log)) - 1) : Reads(log)[i].src = op.id
       /\ \A i \in 1..Len(outTags) :
              outTags[i].op = op.id => Trim(outTags[i].text) = S_readyok
       /\ searching # op.id

\* C4: set_option returns Ok when every line collected before the marker is
\* empty after trimming (in particular when there is none), and
\* UnknownOption carrying the caller's name when one of them is not.
C4_SetOptionClassifies ==
    Returned("set_option")
    => IF \A i \in 1..Len(CollectedLines) : CollectedLines[i] = <<>>
       THEN result = Ok(<<>>)
       ELSE result = UnknownOption(op.args[1])

\* set_option has returned UnknownOption after collecting a line of text.
C4_Witness ==
    /\ Returned("set_option")
    /\ result.tag = "UnknownOption"
    /\ \E i \in 1..Len(CollectedLines) : CollectedLines[i] # <<>>

\* The whitespace-delimited tokens of a line (str::split_whitespace).
RECURSIVE Tokens(_)
Tokens(s) ==
    LET t == TrimStart(s)
    IN  IF t = <<>> THEN <<>>
        ELSE LET n == IF \A i \in 1..Len(t) : ~IsWhitespace(t[i]) THEN Len(t)
                      ELSE (CHOOSE i \in 1..Len(t) :
                                /\ IsWhitespace(t[i])
                                /\ \A j \in 1..(i - 1) : ~IsWhitespace(t[j])) - 1
             IN  <<SubSeq(t, 1, n)>> \o Tokens(SubSeq(t, n + 1, Len(t)))

FirstTokenIsBestmove(s) == Tokens(s) # <<>> /\ Tokens(s)[1] = S_bestmove

\* C5: bestmove skips every line whose first whitespace-delimited token is
\* not "bestmove", stops at the first line whose first token is "bestmove",
\* and returns that line's second whitespace-delimited token.
C5_BestmoveSecondToken ==
    op.kind = "bestmove"
    => /\ \A i \in 1..Len(Reads(log)) :
              FirstTokenIsBestmove(Reads(log)[i].s)
              <=> (i = Len(Reads(log)) /\ pc \in {"idle", "panic"})
       /\ pc = "idle" =>
              /\ Len(Tokens(Reads(log)[Len(Reads(log))].s)) >= 2
              /\ result = Ok(Tokens(Reads(log)[Len(Reads(log))].s)[2])

\* The output stream is at its end: the engine is gone and no line is left.
AtEof == Waiting /\ ~alive /\ ~HasLine

\* C6: when the engine's output stream is closed while an operation waits for
\* a line, the operation returns EngineError::Io to its caller.
C6_EofIsIoError ==
    [][AtEof => (pc' = "failed" /\ result' = Io)]_vars

IsErr(e) == e.k \in {"writeerr", "readerr"}

\* C7: the first write or read of an operation that fails is its last I/O
\* call: the operation returns EngineError::Io at once, nothing of it is
\* written or read afterwards, and Io is returned for no other reason.
C7_ErrorsPropagate ==
    /\ \A i \in 1..Len(log) :
           IsErr(log[i]) => (i = Len(log) /\ pc = "failed" /\ result = Io)
    /\ (pc = "failed" \/ result.tag = "Io") =>
           (log # <<>> /\ IsErr(log[Len(log)]) /\ pc = "failed" /\ result = Io)
    /\ Cardinality({i \in 1..Len(stdin) : stdin[i].op = op.id})
           <= Len(Writes(log))

\* The write of set_option's command has failed: the call has returned Io and
\* has written no probe.
C7_Witness ==
    /\ pc = "failed"
    /\ op.kind = "set_option"
    /\ Len(log) = 1
    /\ log[1].k = "writeerr"
    /\ result = Io

\* The I/O of a synchronized send that has returned: its command is written,
\* the probe is the very next call, and of the lines read after it exactly
\* the last one is "readyok".
SyncSendShape ==
    (pc = "idle" /\ op.kind \in {"new", "command", "set_option"}) =>
        LET w == IF op.kind = "new" THEN 2 ELSE 1
        IN  /\ Len(log) >= w + 2
            /\ log[w].k = "write"
            /\ log[w + 1].k = "write"
            /\ log[w + 1].s = S_isready \o <<NL>>
            /\ \A i \in (w + 2)..Len(log) :
                   /\ log[i].k = "read"
                   /\ IsReadyok(log[i].s) <=> i = Len(log)

PositionKinds == {"make_moves", "set_position", "make_moves_from_position"}

\* The engine's input holds the writes in the order of the operations.
StdinInOrder ==
    \A i, j \in 1..Len(stdin) : i < j => stdin[i].op <= stdin[j].op

\* C9: a call of make_moves, set_position or make_moves_from_position is one
\* write, of a text that is no probe, and no read: it returns at once, leaves
\* the engine's unread output as it is, and its text is appended to the
\* engine's input, which keeps the order of the operations.
C9_FireAndForget ==
    /\ [](/\ StdinInOrder
          /\ op.kind \in PositionKinds =>
                 /\ pc \in {"idle", "failed"}
                 /\ Len(log) = 1
                 /\ log[1].k \in {"write", "writeerr"}
                 /\ log[1].s # S_isready \o <<NL>>)
    /\ [][(nops' = nops + 1 /\ op'.kind \in PositionKinds) =>
              /\ stdout' = stdout
              /\ outTags' = outTags
              /\ probes' = probes
              /\ readyoks' = readyoks
              /\ stdin' = IF log'[1].k = "write"
                          THEN Append(stdin, [text |-> log'[1].s, op |-> nops'])
                          ELSE stdin]_vars

\* A position setter has returned: lines the engine printed for an earlier
\* operation are still unread, and the setter's command is in the engine's
\* input.
C9_Witness ==
    /\ pc = "idle"
    /\ op.kind \in PositionKinds
    /\ result = Ok(<<>>)
    /\ alive
    /\ outTags # <<>>
    /\ \A i \in 1..Len(outTags) : outTags[i].op < op.id
    /\ stdin = <<[text |-> log[1].s, op |-> op.id]>>

\* The moves, each but the first preceded by one blank.
RECURSIVE SpaceJoined(_)
SpaceJoined(moves) ==
    IF moves = <<>> THEN <<>>
    ELSE IF Len(moves) = 1 THEN moves[1]
    ELSE SpaceJoined(Front(moves)) \o <<SP>> \o moves[Len(moves)]

\* C10: make_moves writes "position startpos moves ", the moves joined by
\* single blanks and a newline; make_moves_from_position writes "position
\* fen <fen> moves ", the joined moves and a newline; for no moves the text
\* keeps the blank after "moves"; set_position(fen) writes what
\* make_moves_from_position(fen, no moves) writes.
C10_PositionText ==
    /\ op.kind = "make_moves" =>
           /\ log[1].s = S_position_startpos \o SpaceJoined(op.args[1]) \o <<NL>>
           /\ op.args[1] = <<>> =>
                  SubSeq(log[1].s, Len(log[1].s) - 7, Len(log[1].s))
                      = <<32, 109, 111, 118, 101, 115, 32, 10>>
    /\ op.kind = "make_moves_from_position" =>
           log[1].s = S_position_fen \o op.args[1] \o S_moves
                          \o SpaceJoined(op.args[2]) \o <<NL>>
    /\ op.kind = "set_position" =>
           log[1].s = S_position_fen \o op.args[1] \o S_moves \o <<NL>>

\* make_moves has written its text for no moves.
C10_Witness ==
    /\ pc = "idle"
    /\ op.kind = "make_moves"
    /\ op.args[1] = <<>>
    /\ log[1].k = "write"

\* ---------------------------------------------------------------------------
\* C11: set_option writes exactly the text "setoption name ", the name, the
\* text " value ", the value and a newline, with the name and the value as the
\* caller passed them (nothing escaped, trimmed or quoted), blanks inside the
\* value included; it is the first thing the call writes.
HasBlank(s) == \E i \in 1..Len(s) : s[i] = SP

C11_SetOptionText ==
    op.kind = "set_option"
        => /\ Len(log) >= 1
           /\ log[1].k \in {"write", "writeerr"}
           /\ log[1].s = <<115,101,116,111,112,116,105,111,110,32,110,97,109,101,32>>
                           \o op.args[1]
                           \o <<32,118,97,108,117,101,32>>
                           \o op.args[2] \o <<10>>

C11_Witness ==
    /\ Returned("set_option")
    /\ HasBlank(op.args[2])
    /\ log[1].k = "write"
    /\ result = Ok(<<>>)

\* ---------------------------------------------------------------------------
\* C12: bestmove writes "go movetime V" and a newline, V being the decimal
\* form of the value of the most recent movetime(v) call, or of 100 if
\* movetime was never called; a movetime call itself writes nothing and
\* reads nothing.  Stated step by step: the think-time is 100 before the
\* first operation, changes only in a movetime call, which sets it to its
\* argument and touches neither stream, and bestmove writes the think-time
\* it finds.
RECURSIVE NumValue(_)
NumValue(d) ==
    IF d = <<>> THEN 0 ELSE 10 * NumValue(Front(d)) + (d[Len(d)] - 48)

DecimalOf(v) ==
    CHOOSE d \in UNION {[1..n -> 48..57] : n \in 1..3} :
        NumValue(d) = v /\ (Len(d) > 1 => d[1] # 48)

Starts(kind) == nops' = nops + 1 /\ op'.kind = kind

C12_MovetimeBudget ==
    /\ [](nops = 0 => movetime = 100)
    /\ [][movetime' # movetime => Starts("movetime")]_vars
    /\ [][Starts("movetime")
            => /\ movetime' = op'.args[1]
               /\ log' = <<>>
               /\ stdin' = stdin /\ stdout' = stdout /\ outTags' = outTags
               /\ pc' = "idle" /\ result' = Ok(<<>>)]_vars
    /\ [][Starts("bestmove")
            => /\ Len(log') = 1
               /\ log'[1].k \in {"write", "writeerr"}
               /\ log'[1].s = <<103,111,32,109,111,118,101,116,105,109,101,32>>
                                \o DecimalOf(movetime) \o <<10>>]_vars

\* movetime(200) was called and the bestmove call after it has sent
\* "go movetime 200".
C12_Witness ==
    /\ op.kind = "bestmove"
    /\ movetime = 200
    /\ log[1].k = "write"
    /\ log[1].s = <<103,111,32,109,111,118,101,116,105,109,101,32,50,48,48,10>>
    /\ \E i \in 1..Len(stdin) : stdin[i].text = log[1].s

\* ---------------------------------------------------------------------------
\* C13: command sends the caller's text and a newline and then, as its very
\* next call on the streams, with no read in between, the "isready" probe.
\* As claimed, the text is sent verbatim:
ProbeNext ==
    Len(log) >= 2 => /\ log[2].k \in {"write", "writeerr"}
                     /\ log[2].s = <<105,115,114,101,97,100,121,10>>

C13_CommandVerbatim ==
    op.kind = "command"
        => /\ Len(log) >= 1
           /\ log[1].k \in {"write", "writeerr"}
           /\ log[1].s = op.args[1] \o <<10>>
           /\ ProbeNext

\* C13 (amended): the text sent is the caller's text without its leading and
\* trailing whitespace, then a newline; the probe is the very next call.
IsTrimOf(t, cmd) ==
    \E i \in 1..Len(cmd) + 1 : \E j \in i - 1..Len(cmd) :
        /\ t = SubSeq(cmd, i, j)
        /\ \A k \in 1..i - 1 : IsWhitespace(cmd[k])
        /\ \A k \in j + 1..Len(cmd) : IsWhitespace(cmd[k])
        /\ j >= i => ~IsWhitespace(cmd[i]) /\ ~IsWhitespace(cmd[j])

C13_CommandTrimmed ==
    op.kind = "command"
        => /\ Len(log) >= 1
           /\ log[1].k \in {"write", "writeerr"}
           /\ Len(log[1].s) >= 1
           /\ log[1].s[Len(log[1].s)] = 10
           /\ IsTrimOf(Front(log[1].s), op.args[1])
           /\ ProbeNext

\* command was called with a text that ends in a blank, and its probe has
\* been written after the command.
C13_Witness ==
    /\ op.kind = "command"
    /\ op.args[1][Len(op.args[1])] = 32
    /\ Len(log) >= 2
    /\ log[1].k = "write" /\ log[2].k = "write"
    /\ Len(stdin) >= 2

\* ---------------------------------------------------------------------------
\* C14: the synchronized send-and-drain never returns early and has no
\* timeout.  A call of command or set_option returns Ok or UnknownOption
\* only after it has read a line that is "readyok" after trimming, at the
\* first such line; a call that waits leaves the wait only by reading the
\* marker or by a transport failure, so it never returns if the engine never
\* prints the marker; and while the stream stays open and the engine answers
\* the probe, the call returns.
IsReadyokLine(s) == Tokens(s) = <<(<<114,101,97,100,121,111,107>>)>>

InDrain == pc \in {"probe", "drain"}

C14_ReturnedAtMarker ==
    (/\ pc = "idle"
     /\ op.kind \in {"command", "set_option"}
     /\ result.tag \in {"Ok", "UnknownOption"})
    => /\ Len(log) >= 3
       /\ log[Len(log)].k = "read"
       /\ IsReadyokLine(log[Len(log)].s)
       /\ \A i \in 1..Len(log) - 1 :
              log[i].k = "read" => ~IsReadyokLine(log[i].s)

C14_LeavesWaitByMarker ==
    (pc = "drain" /\ pc' # "drain")
    => \/ /\ pc' = "idle"
          /\ HasLine
          /\ IsReadyokLine(read_line)
       \/ pc' = "failed" /\ result' = Io
       \/ pc' = "spin" /\ ~alive

C14_DrainReturnsAtMarker ==
    /\ []C14_ReturnedAtMarker
    /\ [][C14_LeavesWaitByMarker]_vars
    /\ InDrain ~> (pc \in {"idle", "failed"} \/ ~alive)

\* set_option has returned after reading two lines and then the marker,
\* from an engine that is still there.
C14_Witness ==
    /\ Returned("set_option")
    /\ alive
    /\ Len(Reads(log)) = 3
    /\ IsReadyokLine(log[Len(log)].s)

\* ---------------------------------------------------------------------------
\* C15: bestmove uses no barrier.  Each call writes exactly one command, the
\* search command, and no "isready" probe; every other call it makes on the
\* streams is a read; it returns a move only after reading a result line (a
\* line whose first whitespace-delimited token is "bestmove"), so it waits
\* for ever if the engine never prints one.
C15_BestmoveNoBarrier ==
    op.kind = "bestmove"
    => /\ pc \in {"best", "idle", "failed", "spin", "panic"}
       /\ Len(log) >= 1
       /\ log[1].k \in {"write", "writeerr"}
       /\ log[1].s # <<105,115,114,101,97,100,121,10>>
       /\ \A i \in 2..Len(log) : log[i].k \in {"read", "readerr"}
       /\ \A i \in 1..Len(stdin) :
              stdin[i].op = op.id => stdin[i].text = log[1].s
       /\ (pc = "idle" /\ result.tag = "Ok")
              => /\ log[Len(log)].k = "read"
                 /\ FirstTokenIsBestmove(log[Len(log)].s)

\* ---------------------------------------------------------------------------
\* C16: the move bestmove returns is taken from the line the engine printed
\* for this call's own search command, never from a line an earlier
\* operation left unread.
C16_OwnResultLine ==
    (Returned("bestmove") /\ result.tag = "Ok")
    => /\ log[Len(log)].k = "read"
       /\ log[Len(log)].src = op.id

\* ---------------------------------------------------------------------------
\* C17: what the engine printed in answer to an earlier position command
\* (make_moves, set_position, make_moves_from_position) never makes a later
\* set_option return UnknownOption: whenever set_option returns
\* UnknownOption, one of the non-empty lines it collected is something else
\* than the answer to an earlier position command.
AnswersEarlierPosition(e) == e.cmd = "position" /\ e.src < op.id

C17_PositionOutputHarmless ==
    (Returned("set_option") /\ result.tag = "UnknownOption")
    => \E i \in 1..(Len(Reads(log)) - 1) :
           /\ Trim(Reads(log)[i].s) # <<>>
           /\ ~AnswersEarlierPosition(Reads(log)[i])

\* ---------------------------------------------------------------------------
\* C18: bestmove never aborts: whatever lines the engine prints, a call of
\* bestmove has returned a move, has returned an error, or is still waiting
\* for a line; a result line that is the "bestmove" token alone included.
C18_BestmoveNeverAborts ==
    op.kind = "bestmove"
    => \/ pc = "idle" /\ result.tag = "Ok"
       \/ pc = "failed" /\ result = Io
       \/ pc \in {"best", "spin"} /\ result = NoResult

\* ---------------------------------------------------------------------------
\* C19: a rejected option leaves the stream synchronized.  When set_option
\* returns UnknownOption, the last line it read is the "readyok" the engine
\* printed for this call's own probe, no line the engine printed for this
\* call is unread, and nothing this call wrote waits in the engine's input:
\* no later call can collect a line of the rejected call.
C19_RejectedOptionSynchronized ==
    (Returned("set_option") /\ result.tag = "UnknownOption")
    => /\ log[Len(log)].k = "read"
       /\ log[Len(log)].src = op.id
       /\ log[Len(log)].cmd = "isready"
       /\ \A i \in 1..Len(outTags) : outTags[i].op # op.id
       /\ \A i \in 1..Len(stdin) : stdin[i].op # op.id

====
